---- MODULE Spec2Model ----
(***************************************************************************)
(* Model of il_budget_v2.py, the Illinois Budget Calculator v2.            *)
(*                                                                         *)
(* The script is a Streamlit page: it is executed from top to bottom on    *)
(* every user interaction.  One run loads the table, groups it, reads      *)
(* every input widget (rebuilding category_adjustments and                 *)
(* fund_adjustments from scratch), and recomputes the totals.  A step of   *)
(* the model is one user interaction followed by the whole run it causes.  *)
(*                                                                         *)
(* Money is held in fixed point with two decimals of a million (the unit   *)
(* is 0.01 M), so that value * (1 + pct / 100) is exact for whole          *)
(* percentages and whole millions; binary floating-point rounding is not   *)
(* modelled.                                                               *)
(***************************************************************************)
EXTENDS Integers, Sequences, FiniteSets, TLC

\* ---------------------------------------------------------------- bounds
MaxRows == 3
MaxEdits == 2

\* ------------------------------------------------------------- constants
Million == 1000000
Hundred == 100
min_value == -100
max_value == 100

Range(s) == { s[i] : i \in 1..Len(s) }

\* A missing cell of the spreadsheet (pandas NaN / None).
NaN == "NaN"
NaNCell == [k |-> "nan", v |-> 0]
Num(n) == [k |-> "num", v |-> n]
Text == [k |-> "str", v |-> 0]

revenue_fund_cats ==
  << "General Funds", "Highway Funds", "Special State Funds", "Federal Trust Funds" >>

\* The category names of category_info in the order pandas sorts group keys.
SortedCategories ==
  << "Bond Financed Funds", "Debt Service Funds", "Federal Trust Funds",
     "General Funds", "Highway Funds", "Revolving Funds",
     "Special State Funds", "State Trust Funds" >>

\* The fund names of the modelled tables in the order pandas sorts group keys.
SortedFunds == << "F1", "F2", "F3" >>

\* The sample spreadsheet; a modelled data/budget_data.xlsx is a run of at
\* most MaxRows consecutive rows of it.
Spreadsheet ==
  << [cat |-> "Debt Service Funds", fund |-> "F1", approp |-> Num(50 * Million)],
     [cat |-> "Highway Funds",      fund |-> "F1", approp |-> Num(200 * Million)],
     [cat |-> "General Funds",      fund |-> "F1", approp |-> Text],
     [cat |-> "General Funds",      fund |-> "F1", approp |-> Num(100 * Million)],
     [cat |-> "General Funds",      fund |-> "F2", approp |-> Num(200 * Million)],
     [cat |-> "Debt Service Funds", fund |-> "F3", approp |-> Num(50 * Million)],
     [cat |-> "Debt Service Funds", fund |-> "F3", approp |-> Num(25 * Million)],
     [cat |-> "Highway Funds",      fund |-> "F2", approp |-> NaNCell],
     [cat |-> NaN,                  fund |-> "F2", approp |-> Num(100 * Million)] >>

Tables ==
  { [i \in 1..w[2] |-> Spreadsheet[w[1] + i - 1]] :
      w \in { x \in (1..Len(Spreadsheet)) \X (0..MaxRows) :
                x[1] + x[2] - 1 <= Len(Spreadsheet) } }

\* Percentages the user types into a number_input.
PctChoices == { -20, 0, 10 }

\* ------------------------------------------------------------ sequences
RECURSIVE SumSeq(_)
SumSeq(s) == IF s = << >> THEN 0 ELSE Head(s) + SumSeq(Tail(s))

RECURSIVE Unique(_)
Unique(s) ==
  IF s = << >> THEN << >>
  ELSE LET rest == Unique(SelectSeq(Tail(s), LAMBDA x : x # Head(s)))
       IN  << Head(s) >> \o rest

\* dict[key] = value
Put(d, key, value) ==
  [x \in DOMAIN d \cup {key} |-> IF x = key THEN value ELSE d[x]]

\* dict.get(key, default)
Get(d, key, default) == IF key \in DOMAIN d THEN d[key] ELSE default

EmptyDict == [x \in {} |-> 0]

\* ------------------------------------------------------------ load_data
dropna(table) ==
  SelectSeq(table, LAMBDA r : r.cat # NaN /\ r.fund # NaN /\ r.approp.k # "nan")

\* pd.to_numeric(errors='coerce'): what is not a number becomes NaN.
to_numeric(cell) == IF cell.k = "num" THEN cell ELSE NaNCell

\* / 1_000_000, kept with two decimals (the modelled amounts are whole
\* millions); NaN stays NaN.
InMillions(cell) ==
  IF cell.k = "num" THEN Num((cell.v \div Million) * Hundred) ELSE NaNCell

load_data(table) ==
  LET kept == dropna(table)
  IN  [i \in 1..Len(kept) |->
         [cat |-> kept[i].cat, fund |-> kept[i].fund,
          approp |-> to_numeric(kept[i].approp),
          approp_m |-> InMillions(to_numeric(kept[i].approp))]]

\* Series.sum(): NaN cells are skipped, an all-NaN or empty series sums to 0.
ColumnSum(rows) ==
  LET nums == SelectSeq(rows, LAMBDA r : r.approp_m.k = "num")
  IN  SumSeq([i \in 1..Len(nums) |-> nums[i].approp_m.v])

\* ----------------------------------------------------------- grouped_df
AllPairs ==
  [k \in 1..(Len(SortedCategories) * Len(SortedFunds)) |->
     << SortedCategories[((k - 1) \div Len(SortedFunds)) + 1],
        SortedFunds[((k - 1) % Len(SortedFunds)) + 1] >>]

\* agg 'first' in place of agg 'sum'.
FirstOf(rows) == IF rows = << >> THEN 0 ELSE ColumnSum(<< Head(rows) >>)

GroupFirst(d, c, f) ==
  FirstOf(SelectSeq(d, LAMBDA r : r.cat = c /\ r.fund = f /\ r.approp_m.k = "num"))

GroupSum(d, c, f) == ColumnSum(SelectSeq(d, LAMBDA r : r.cat = c /\ r.fund = f))

groupby(d) ==
  LET present == SelectSeq(AllPairs,
                   LAMBDA p : \E i \in 1..Len(d) : d[i].cat = p[1] /\ d[i].fund = p[2])
  IN  [i \in 1..Len(present) |->
         [cat |-> present[i][1], fund |-> present[i][2],
          value |-> GroupSum(d, present[i][1], present[i][2])]]

Categories(g) == Unique([i \in 1..Len(g) |-> g[i].cat])

FundsOf(g, category) ==
  LET rows == SelectSeq(g, LAMBDA r : r.cat = category)
  IN  Unique([i \in 1..Len(rows) |-> rows[i].fund])

\* ------------------------------------------------- st.session_state, widgets
\* Widget keys: "spend_all", "rev_all", f"spend_cat_{category}",
\* f"spend_fund_{category}_{fund}", f"rev_cat_{category}", f"rev_fund_{category}_{fund}".
Key(kind, category, fund) == << kind, category, fund >>

\* st.number_input(..., value=default, key=key): the value held for the key,
\* the default when the key holds none.
number_input(ss, key, default) == Get(ss, key, default)

\* The state carried through the UI pass: the two adjustment maps and the
\* value every rendered widget leaves in st.session_state.
NewPass == [ca |-> EmptyDict, fa |-> EmptyDict, st |-> EmptyDict]

\* if fund_pct != 0: fund_adjustments[fund] = fund_pct
StoreFund(fa, fund, fund_pct) == IF fund_pct # 0 THEN Put(fa, fund, fund_pct) ELSE fa

\* One fund input of a drill-down: the value is read, kept under the key,
\* and stored in fund_adjustments when it is not zero.
FundInput(acc, key, fund, fund_pct) ==
  [ca |-> acc.ca, fa |-> StoreFund(acc.fa, fund, fund_pct), st |-> Put(acc.st, key, fund_pct)]

\* The drill-down loop of one category.
RECURSIVE DrillDown(_, _, _, _, _)
DrillDown(ss, prefix, category, funds, acc) ==
  IF funds = << >> THEN acc
  ELSE DrillDown(ss, prefix, category, Tail(funds),
                 FundInput(acc, Key(prefix \o "_fund", category, Head(funds)), Head(funds),
                           number_input(ss, Key(prefix \o "_fund", category, Head(funds)), 0)))

\* One category input: category_adjustments[category] = cat_pct
CategoryInput(acc, key, category, cat_pct) ==
  [ca |-> Put(acc.ca, category, cat_pct), fa |-> acc.fa, st |-> Put(acc.st, key, cat_pct)]

\* The category loop of one tab; all is the tab's "Adjust All" value.
RECURSIVE CategoryLoop(_, _, _, _, _, _)
CategoryLoop(ss, prefix, cats, all, g, acc) ==
  IF cats = << >> THEN acc
  ELSE CategoryLoop(ss, prefix, Tail(cats), all, g,
         DrillDown(ss, prefix, Head(cats), FundsOf(g, Head(cats)),
           CategoryInput(acc, Key(prefix \o "_cat", Head(cats), ""), Head(cats),
                         number_input(ss, Key(prefix \o "_cat", Head(cats), ""), all))))

\* The "Adjust All" input of a tab, then its category loop.
Tab(ss, prefix, cats, g, acc, key, all) ==
  CategoryLoop(ss, prefix, cats, all, g,
               [ca |-> acc.ca, fa |-> acc.fa, st |-> Put(acc.st, key, all)])

\* The revenue tab iterating over the revenue categories of the dataset only.
RevenueTabCategoriesOfData(g) ==
  SelectSeq(revenue_fund_cats, LAMBDA c : c \in Range(Categories(g)))

\* The categories the revenue tab iterates over.
RevenueTabCategories(g) == revenue_fund_cats

tab_spending(ss, g, acc) ==
  Tab(ss, "spend", Categories(g), g, acc, Key("spend_all", "", ""),
      number_input(ss, Key("spend_all", "", ""), Get(ss, Key("spend_all", "", ""), 0)))

tab_revenue(ss, g, acc) ==
  Tab(ss, "rev", RevenueTabCategories(g), g, acc, Key("rev_all", "", ""),
      number_input(ss, Key("rev_all", "", ""), Get(ss, Key("rev_all", "", ""), 0)))

UIPass(ss, g) == tab_revenue(ss, g, tab_spending(ss, g, NewPass))

\* ------------------------------------------------------- Calculate Totals
\* The lookup with the precedence inverted: the category value first.
CategoryFirstPct(fa, ca, fund_cat, fund_name) == Get(ca, fund_cat, Get(fa, fund_name, 0))

\* pct = fund_adjustments.get(fund_name, category_adjustments.get(fund_cat, 0))
EffectivePct(fa, ca, fund_cat, fund_name) == Get(fa, fund_name, Get(ca, fund_cat, 0))

\* value * (1 + pct / 100)
Adjusted(value, pct) == (value * (Hundred + pct)) \div Hundred

IsRevenue(fund_cat) == fund_cat \in Range(revenue_fund_cats)

\* The loop body with the spending line inside an else branch.
AddRowElse(t, fund_cat, p, a) ==
  [adjusted_revenue |-> IF IsRevenue(fund_cat) THEN t.adjusted_revenue + a
                        ELSE t.adjusted_revenue,
   adjusted_spending |-> IF IsRevenue(fund_cat) THEN t.adjusted_spending
                         ELSE t.adjusted_spending + a,
   pct |-> Append(t.pct, p)]

\* One iteration of the loop over grouped_df.
AddRow(t, fund_cat, p, a) ==
  [adjusted_revenue |-> IF IsRevenue(fund_cat) THEN t.adjusted_revenue + a
                        ELSE t.adjusted_revenue,
   adjusted_spending |-> t.adjusted_spending + a,
   pct |-> Append(t.pct, p)]

RowTotals(t, row, p) == AddRow(t, row.cat, p, Adjusted(row.value, p))

RECURSIVE Totals(_, _, _, _)
Totals(g, fa, ca, t) ==
  IF g = << >> THEN t
  ELSE Totals(Tail(g), fa, ca,
              RowTotals(t, Head(g), EffectivePct(fa, ca, Head(g).cat, Head(g).fund)))

CalculateTotals(g, fa, ca) ==
  Totals(g, fa, ca, [adjusted_revenue |-> 0, adjusted_spending |-> 0, pct |-> << >>])

OriginalRevenue(d) == ColumnSum(SelectSeq(d, LAMBDA r : IsRevenue(r.cat)))
OriginalSpending(d) == ColumnSum(d)
Deficit(revenue, spending) == revenue - spending

\* A reset that deletes the "Adjust All" and category keys but no fund key.
DeleteAllButFundKeys(ss) ==
  [k \in { x \in DOMAIN ss : x[1] \in {"spend_fund", "rev_fund"} } |-> ss[k]]

\* Reset All Adjustments: for key in st.session_state.keys(): del st.session_state[key]
DeleteAllKeys(ss) == EmptyDict

\* ------------------------------------------------------------------ state
VARIABLES
  source,                \* data/budget_data.xlsx as read by pd.read_excel
  df,                    \* the cleaned table returned by load_data
  grouped_df,            \* one row per (category, fund)
  session_state,         \* st.session_state after the run
  category_adjustments,
  fund_adjustments,
  pct,                   \* pct[i]: the percentage applied to grouped_df[i]
  adjusted_revenue,
  adjusted_spending,
  original_revenue,
  original_spending,
  original_deficit,
  adjusted_deficit,
  edits,                 \* inputs edited since the page was opened or reset
  last                   \* the interaction that caused the run

vars == << source, df, grouped_df, session_state, category_adjustments,
           fund_adjustments, pct, adjusted_revenue, adjusted_spending,
           original_revenue, original_spending, original_deficit,
           adjusted_deficit, edits, last >>

data == << source, df, grouped_df, original_revenue, original_spending, original_deficit >>

\* kind: "open", "edit" or "reset"; dirty: some adjustment was not zero in
\* the run before.
Interaction(kind, dirty) == [kind |-> kind, dirty |-> dirty]

\* The number of inputs explored since the page was opened or reset: a table
\* shorter than MaxRows leaves room for one more.
EditLimit == IF Len(source) < MaxRows THEN MaxEdits + 1 ELSE MaxEdits

\* Some adjustment of the current run is not zero.
Dirty ==
  \/ fund_adjustments # EmptyDict
  \/ \E c \in DOMAIN category_adjustments : category_adjustments[c] # 0

\* The assignments of one run, given the result ui of its UI pass and the
\* result t of its totals loop.
Assign(ui, t) ==
  /\ session_state' = ui.st
  /\ category_adjustments' = ui.ca
  /\ fund_adjustments' = ui.fa
  /\ pct' = t.pct
  /\ adjusted_revenue' = t.adjusted_revenue
  /\ adjusted_spending' = t.adjusted_spending
  /\ adjusted_deficit' = Deficit(t.adjusted_revenue, t.adjusted_spending)
  /\ UNCHANGED data

Recompute(ui) == Assign(ui, CalculateTotals(grouped_df, ui.fa, ui.ca))

\* One execution of the script from the UI pass on, entered with session
\* state ss (the table is cached by st.cache_data).
Run(ss) == Recompute(UIPass(ss, grouped_df))

FirstRun(table, d, g, ui, t) ==
  /\ source = table
  /\ df = d
  /\ grouped_df = g
  /\ session_state = ui.st
  /\ category_adjustments = ui.ca
  /\ fund_adjustments = ui.fa
  /\ pct = t.pct
  /\ adjusted_revenue = t.adjusted_revenue
  /\ adjusted_spending = t.adjusted_spending
  /\ original_revenue = OriginalRevenue(d)
  /\ original_spending = OriginalSpending(d)
  /\ original_deficit = Deficit(OriginalRevenue(d), OriginalSpending(d))
  /\ adjusted_deficit = Deficit(t.adjusted_revenue, t.adjusted_spending)
  /\ edits = 0
  /\ last = Interaction("open", FALSE)

FirstUI(table, d, g, ui) == FirstRun(table, d, g, ui, CalculateTotals(g, ui.fa, ui.ca))
FirstLoad(table, d) == FirstUI(table, d, groupby(d), UIPass(EmptyDict, groupby(d)))

Init == \E table \in Tables : FirstLoad(table, load_data(table))

\* The user types value into the widget of an existing key; the script reruns.
Edit(kind, category, fund, value) ==
  LET key == Key(kind, category, fund)
  IN  /\ edits < EditLimit
      /\ value \in min_value..max_value
      /\ key \in DOMAIN session_state
      /\ session_state[key] # value
      /\ Run(Put(session_state, key, value))
      /\ edits' = edits + 1
      /\ last' = Interaction("edit", FALSE)

\* An "Adjust All" input is the default value of the tab's category inputs.
\* Whether the category inputs that already hold a value keep it or are
\* created anew with the new default is decided by the widget identity rule
\* of the Streamlit release in use, so either can happen.
EditAll(kind, catkind, value) ==
  LET key == Key(kind, "", "")
      catkeys == { k \in DOMAIN session_state : k[1] = catkind }
  IN  /\ edits < EditLimit
      /\ value \in min_value..max_value
      /\ session_state[key] # value
      /\ \E taken \in { {}, catkeys } :
           Run([k \in (DOMAIN session_state) \ taken |->
                  IF k = key THEN value ELSE session_state[k]])
      /\ edits' = edits + 1
      /\ last' = Interaction("edit", FALSE)

EditSpendAll == \E v \in PctChoices : EditAll("spend_all", "spend_cat", v)
EditRevAll == \E v \in PctChoices : EditAll("rev_all", "rev_cat", v)

EditSpendCat ==
  \E c \in Range(SortedCategories), v \in PctChoices : Edit("spend_cat", c, "", v)

EditSpendFund ==
  \E c \in Range(SortedCategories), f \in Range(SortedFunds), v \in PctChoices :
    Edit("spend_fund", c, f, v)

EditRevCat ==
  \E c \in Range(SortedCategories), v \in PctChoices : Edit("rev_cat", c, "", v)

EditRevFund ==
  \E c \in Range(SortedCategories), f \in Range(SortedFunds), v \in PctChoices :
    Edit("rev_fund", c, f, v)

\* The button is pressed: the run it causes deletes every key and calls
\* st.rerun(), and the following run starts from an empty session state.
ResetAll ==
  /\ Run(DeleteAllKeys(session_state))
  /\ edits' = 0
  /\ last' = Interaction("reset", Dirty)

Next ==
  \/ EditSpendAll
  \/ EditRevAll
  \/ EditSpendCat
  \/ EditSpendFund
  \/ EditRevCat
  \/ EditRevFund
  \/ ResetAll

Spec == Init /\ [][Next]_vars

\* ================================================================ properties
Aggregates == 1..Len(grouped_df)

\* The value the input of the given kind, category and fund holds.
Input(kind, category, fund) == session_state[Key(kind, category, fund)]

HasInput(kind, category, fund) == Key(kind, category, fund) \in DOMAIN session_state

\* Every category-level and fund-level adjustment of the run is 0.
AllZero ==
  /\ fund_adjustments = EmptyDict
  /\ \A c \in DOMAIN category_adjustments : category_adjustments[c] = 0

AdjustedEqualsOriginal ==
  /\ adjusted_revenue = original_revenue
  /\ adjusted_spending = original_spending
  /\ adjusted_deficit = original_deficit

\* The step changes the input of key k and no other input.
OnlyChanged(k) ==
  /\ k \in DOMAIN session_state
  /\ DOMAIN session_state' = DOMAIN session_state
  /\ session_state'[k] # session_state[k]
  /\ \A x \in DOMAIN session_state : x # k => session_state'[x] = session_state[x]

IsFundKey(k) == k[1] \in {"spend_fund", "rev_fund"}

\* ---------------------------------------------------------------------- C1
\* C1: in every recomputation pass the percentage applied to the aggregate
\* (c, f) is fund_adjustments[f] when f has a nonzero entry, otherwise
\* category_adjustments[c] when c has an entry, otherwise 0.
C1_EffectivePct ==
  /\ Len(pct) = Len(grouped_df)
  /\ \A i \in Aggregates :
       pct[i] = IF /\ grouped_df[i].fund \in DOMAIN fund_adjustments
                   /\ fund_adjustments[grouped_df[i].fund] # 0
                THEN fund_adjustments[grouped_df[i].fund]
                ELSE IF grouped_df[i].cat \in DOMAIN category_adjustments
                     THEN category_adjustments[grouped_df[i].cat]
                     ELSE 0

\* One aggregate takes a fund override that differs from its category's
\* value while another, without override, takes a nonzero category value.
C1_Witness ==
  \E i, j \in Aggregates :
    /\ grouped_df[i].fund \in DOMAIN fund_adjustments
    /\ pct[i] = fund_adjustments[grouped_df[i].fund]
    /\ pct[i] # category_adjustments[grouped_df[i].cat]
    /\ grouped_df[j].fund \notin DOMAIN fund_adjustments
    /\ pct[j] = category_adjustments[grouped_df[j].cat]
    /\ pct[j] # 0

\* ---------------------------------------------------------------------- C2
\* v * (1 + pct / 100) of every aggregate, in the order of grouped_df.
Contributions ==
  [i \in Aggregates |-> (grouped_df[i].value * (Hundred + pct[i])) \div Hundred]

RevenueOnly(values) ==
  [i \in Aggregates |-> IF IsRevenue(grouped_df[i].cat) THEN values[i] ELSE 0]

Values == [i \in Aggregates |-> grouped_df[i].value]

\* n millions in the unit of the totals.
M(n) == n * Hundred

\* The dataset of the spec's scenario: A (revenue) with F1 = 100, F2 = 200,
\* B (not revenue) with F3 = 50.
ScenarioData ==
  grouped_df = << [cat |-> "Debt Service Funds", fund |-> "F3", value |-> M(50)],
                  [cat |-> "General Funds", fund |-> "F1", value |-> M(100)],
                  [cat |-> "General Funds", fund |-> "F2", value |-> M(200)] >>

\* Category A = +10 %, fund F1 = -20 %, nothing else.
ScenarioAdjustments ==
  /\ ScenarioData
  /\ category_adjustments["General Funds"] = 10
  /\ category_adjustments["Debt Service Funds"] = 0
  /\ DOMAIN fund_adjustments = {"F1"}
  /\ fund_adjustments["F1"] = -20

\* C2: adjusted_spending is the sum of v * (1 + pct / 100) over all
\* aggregates, adjusted_revenue the same sum over the revenue-generating
\* categories, original_spending and original_revenue the sums of v, each
\* deficit is revenue minus spending with its sign, and the scenario gives
\* adjusted_revenue = 300, adjusted_spending = 350, adjusted_deficit = -50.
C2_Totals ==
  /\ adjusted_spending = SumSeq(Contributions)
  /\ adjusted_revenue = SumSeq(RevenueOnly(Contributions))
  /\ original_spending = SumSeq(Values)
  /\ original_revenue = SumSeq(RevenueOnly(Values))
  /\ original_deficit = original_revenue - original_spending
  /\ adjusted_deficit = adjusted_revenue - adjusted_spending
  /\ ScenarioAdjustments =>
       /\ adjusted_revenue = M(300)
       /\ adjusted_spending = M(350)
       /\ adjusted_deficit = -M(50)

C2_Witness == ScenarioAdjustments /\ adjusted_deficit < 0 /\ original_revenue = M(300)

C6_Reset ==
  last.kind = "reset" =>
    /\ \A k \in DOMAIN session_state : session_state[k] = 0
    /\ AllZero
    /\ \A i \in Aggregates : pct[i] = 0
    /\ AdjustedEqualsOriginal

\* A reset pressed while some adjustment of the run before was not zero.
C6_Witness == last.kind = "reset" /\ last.dirty /\ Len(grouped_df) > 0

\* ---------------------------------------------------------------------- C8
DataCategories == { grouped_df[i].cat : i \in Aggregates }

\* Every key of fund_adjustments is the fund of an input that holds its
\* nonzero value.
FundKeysNonzero ==
  \A f \in DOMAIN fund_adjustments :
    /\ fund_adjustments[f] # 0
    /\ \E k \in DOMAIN session_state :
         IsFundKey(k) /\ k[3] = f /\ session_state[k] = fund_adjustments[f]

\* C8 as claimed: the keys of category_adjustments are exactly the category
\* names present in the dataset, and fund_adjustments holds nonzero
\* overrides only.
C8_Original ==
  /\ DOMAIN category_adjustments = DataCategories
  /\ FundKeysNonzero

\* C8 amended: the keys of category_adjustments are the category names of
\* the dataset together with the four revenue-generating categories,
\* whether these have rows or not; fund_adjustments holds nonzero overrides
\* only.
C8_KeySets ==
  /\ DOMAIN category_adjustments = DataCategories \cup Range(revenue_fund_cats)
  /\ FundKeysNonzero

\* A dataset with a revenue and a non-revenue category, one fund overridden
\* and another left at 0.
C8_Witness ==
  /\ \E c \in DataCategories : IsRevenue(c)
  /\ \E c \in DataCategories : ~IsRevenue(c)
  /\ fund_adjustments # EmptyDict
  /\ \E i \in Aggregates : grouped_df[i].fund \notin DOMAIN fund_adjustments

\* ---------------------------------------------------------------------- C3
\* C3: after the user sets a fund-level input of fund f of category c to a
\* nonzero value p, the next recomputation applies p to (c, f); after the
\* user sets that input back to 0, it applies c's category value.
C3_OverridePrecedence ==
  [][ \A k \in DOMAIN session_state :
        (IsFundKey(k) /\ OnlyChanged(k)) =>
          \A i \in Aggregates :
            (grouped_df[i].cat = k[2] /\ grouped_df[i].fund = k[3]) =>
              pct'[i] = IF session_state'[k] # 0
                        THEN session_state'[k]
                        ELSE category_adjustments'[k[2]] ]_vars

\* ---------------------------------------------------------------------- C4
\* C4: setting a nonzero override on the input of fund f under category c
\* changes the percentage applied to the aggregate (c, f) alone; every
\* other aggregate, one with the same fund name under another category
\* included, keeps the percentage it had.
C4_OneFundOnly ==
  [][ \A k \in DOMAIN session_state :
        (IsFundKey(k) /\ OnlyChanged(k) /\ session_state'[k] # 0) =>
          \A i \in Aggregates :
            (grouped_df[i].cat # k[2] \/ grouped_df[i].fund # k[3]) =>
              pct'[i] = pct[i] ]_vars

IsRevenueKey(k) ==
  \/ k[1] \in {"rev_all", "rev_cat", "rev_fund"}
  \/ k[1] \in {"spend_cat", "spend_fund"} /\ IsRevenue(k[2])

NonRevenueOnly(values) ==
  [i \in Aggregates |-> IF IsRevenue(grouped_df[i].cat) THEN 0 ELSE values[i]]

\* C9: adjusted_deficit is minus the sum of the adjusted values of the funds
\* in non-revenue categories, is never positive, adjusted_revenue never
\* exceeds adjusted_spending, and a step that changes only inputs of
\* revenue-generating categories or of their funds leaves adjusted_deficit
\* as it was.
C9_DeficitIgnoresRevenue ==
  [][ /\ adjusted_deficit' = 0 - SumSeq(NonRevenueOnly(Contributions))'
      /\ adjusted_deficit' <= 0
      /\ adjusted_revenue' <= adjusted_spending'
      /\ ( /\ DOMAIN session_state' = DOMAIN session_state
           /\ \A k \in DOMAIN session_state :
                session_state'[k] # session_state[k] => IsRevenueKey(k) )
         => adjusted_deficit' = adjusted_deficit ]_vars

\* --------------------------------------------------------------------- C10
\* C10: for every revenue-generating category the stored category value is
\* the revenue-tab input; for a fund of a revenue-generating category with
\* nonzero overrides in both tabs the revenue-tab value is the one applied,
\* and the spending-tab override is applied only while the revenue-tab
\* override of that fund is 0.
C10_RevenueTabWins ==
  /\ \A c \in Range(revenue_fund_cats) :
       category_adjustments[c] = Input("rev_cat", c, "")
  /\ \A i \in Aggregates :
       IsRevenue(grouped_df[i].cat) =>
         /\ ( /\ Input("rev_fund", grouped_df[i].cat, grouped_df[i].fund) # 0
              /\ Input("spend_fund", grouped_df[i].cat, grouped_df[i].fund) # 0 )
            => pct[i] = Input("rev_fund", grouped_df[i].cat, grouped_df[i].fund)
         /\ ( /\ Input("spend_fund", grouped_df[i].cat, grouped_df[i].fund) # 0
              /\ pct[i] = Input("spend_fund", grouped_df[i].cat, grouped_df[i].fund)
              /\ pct[i] # Input("rev_fund", grouped_df[i].cat, grouped_df[i].fund) )
            => Input("rev_fund", grouped_df[i].cat, grouped_df[i].fund) = 0

====
